---- MODULE Spec2Model ----
(***************************************************************************)
(* Model of uncon (src/src/lib.rs: the FromUnchecked / IntoUnchecked trait *)
(* pair and its built-in implementations) and of uncon_derive              *)
(* (src/derive/src/lib.rs: the derive generator impl_from_unchecked).      *)
(*                                                                         *)
(* One behaviour is one derive invocation on a declaration `ast`, stepped  *)
(* through impl_from_unchecked, followed by calls of the emitted and the   *)
(* built-in conversions.                                                   *)
(*                                                                         *)
(* Identifiers are sequences of one-character strings, so that the regex   *)
(* of line 137 is matched character by character.  Integers are           *)
(* little-endian byte sequences, so that `as` casts and transmute act on   *)
(* the representation and every number in the model is a byte.            *)
(***************************************************************************)
EXTENDS Integers, Sequences, FiniteSets, TLC

VARIABLES ast, pc, vi, items, ty, init, other_items, output, err, call

vars == <<ast, pc, vi, items, ty, init, other_items, output, err, call>>

-----------------------------------------------------------------------------
(* Bounds of the explored declarations and values. *)
MaxAttrs == 2
MaxVariants == 3
MaxFields == 2
MaxBytes == 1

-----------------------------------------------------------------------------
(* Identifiers. *)
id_repr == <<"r", "e", "p", "r">>
id_uncon == <<"u", "n", "c", "o", "n">>
id_other == <<"o", "t", "h", "e", "r">>
id_C == <<"C">>
id_u8 == <<"u", "8">>
id_U8 == <<"U", "8">>
id_i8 == <<"i", "8">>
id_u16 == <<"u", "1", "6">>
id_i16 == <<"i", "1", "6">>
id_u32 == <<"u", "3", "2">>
id_i32 == <<"i", "3", "2">>
id_u64 == <<"u", "6", "4">>
id_i64 == <<"i", "6", "4">>
id_usize == <<"u", "s", "i", "z", "e">>
id_isize == <<"i", "s", "i", "z", "e">>
id_u128 == <<"u", "1", "2", "8">>
id_i0 == <<"i", "0">>
id_u == <<"u">>
id_u8size == <<"u", "8", "s", "i", "z", "e">>
id_Flag == <<"F", "l", "a", "g">>
id_U4 == <<"U", "4">>
id_bits == <<"b", "i", "t", "s">>

Digits == {"0", "1", "2", "3", "4", "5", "6", "7", "8", "9"}

DigitChars == <<"0", "1", "2", "3", "4", "5", "6", "7", "8", "9">>

(* The identifier of the i-th variant of an explored enum: V0, V1, ... *)
VariantIdent(i) == <<"V", DigitChars[i]>>

-----------------------------------------------------------------------------
(* syn::MetaItem and syn::NestedMetaItem, as records of one shape. *)
Word(id) == [kind |-> "Word", id |-> id, items |-> <<>>]
List(id, its) == [kind |-> "List", id |-> id, items |-> its]
NameValue(id) == [kind |-> "NameValue", id |-> id, items |-> <<>>]
NoMetaItem == [kind |-> "None", id |-> <<>>, items |-> <<>>]

Meta(mi) == [kind |-> "MetaItem", item |-> mi]
Literal == [kind |-> "Literal", item |-> NoMetaItem]

(* MetaItem::name(): the identifier of a Word, a List or a NameValue. *)
MetaName(mi) == mi.id

-----------------------------------------------------------------------------
(* The explored declarations: syn::DeriveInput {ident, attrs, body}. *)

(* Attributes (Attribute::value) a declaration may carry. *)
AttrPool ==
    { List(id_repr, <<Meta(Word(id_u8))>>),
      List(id_repr, <<Meta(Word(id_C)), Meta(Word(id_u16)), Meta(Word(id_u8))>>),
      List(id_repr, <<Meta(Word(id_C)), Meta(Word(id_U8)), Literal,
                      Meta(Word(id_u)), Meta(Word(id_u8size))>>),
      List(id_repr, <<Meta(Word(id_u128))>>),
      List(id_repr, <<Meta(Word(id_i0))>>),
      List(id_repr, <<Meta(Word(id_isize))>>),
      Word(id_repr),
      List(id_uncon, <<Meta(List(id_other, <<Meta(Word(id_u16)), Meta(Word(id_u32))>>))>>),
      List(id_uncon, <<Meta(List(id_other, <<Meta(Word(id_u16)), Literal,
                                             Meta(NameValue(id_i8))>>)),
                       Meta(Word(id_other)),
                       Literal,
                       Meta(List(id_other, <<Meta(Word(id_u16))>>))>>) }

SeqsUpTo(S, n) == UNION { [1..k -> S] : k \in 0..n }

VariantDataKinds == {"Unit", "Tuple", "Struct"}

EnumBodies ==
    { [kind |-> "Enum", data |-> "Unit", fields |-> <<>>,
       variants |-> [i \in DOMAIN ds |-> [ident |-> VariantIdent(i), data |-> ds[i]]]]
      : ds \in SeqsUpTo(VariantDataKinds, MaxVariants) }

FieldTypes == {id_u8, id_u16}

(* A brace struct names its fields, a tuple struct does not, a unit struct has none. *)
StructBodies ==
    { [kind |-> "Struct", data |-> d, variants |-> <<>>,
       fields |-> [i \in DOMAIN ts |->
                     [named |-> (d = "Struct"), ident |-> id_bits, ty |-> ts[i]]]]
      : d \in {"Struct", "Tuple"}, ts \in SeqsUpTo(FieldTypes, MaxFields) }
    \cup { [kind |-> "Struct", data |-> "Unit", variants |-> <<>>, fields |-> <<>>] }

Decls ==
    { [ident |-> IF b.kind = "Enum" THEN id_Flag ELSE id_U4, attrs |-> as, body |-> b]
      : b \in EnumBodies \cup StructBodies, as \in SeqsUpTo(AttrPool, MaxAttrs) }

-----------------------------------------------------------------------------
(* Helpers of the generator. *)

RECURSIVE Concat(_)
Concat(ss) == IF ss = <<>> THEN <<>> ELSE Head(ss) \o Concat(Tail(ss))

(* as_item: Some(item) for NestedMetaItem::MetaItem, None for a literal. *)
as_item(item) == IF item.kind = "MetaItem" THEN <<item.item>> ELSE <<>>

(* items.iter().filter_map(as_item) *)
FilterMapAsItem(its) == Concat([i \in DOMAIN its |-> as_item(its[i])])

(* meta_items without the `id == ident` test of line 111. *)
meta_items_any_ident(mis, ident) ==
    Concat([i \in DOMAIN mis |-> IF mis[i].kind = "List" THEN <<mis[i].items>> ELSE <<>>])

(* meta_items: the item lists of the MetaItem::List entries named ident, in order. *)
meta_items(mis, ident) ==
    Concat([i \in DOMAIN mis |->
              IF mis[i].kind = "List" /\ mis[i].id = ident
              THEN <<mis[i].items>> ELSE <<>>])

(* attr_items: meta_items over the values of the declaration's attributes. *)
attr_items(a, ident) == meta_items(a.attrs, ident)

(* int_ty compiled case-insensitively. *)
int_ty_ignoring_case(name) ==
    /\ Len(name) >= 2
    /\ name[1] \in {"i", "u", "I", "U"}
    /\ \/ \A j \in 2..Len(name) : name[j] \in Digits
       \/ SubSeq(name, 2, Len(name)) = <<"s", "i", "z", "e">>

(* The regex ^(i|u)(\d+|size)$ of int_ty. *)
int_ty_is_match(name) ==
    /\ Len(name) >= 2
    /\ name[1] \in {"i", "u"}
    /\ \/ \A j \in 2..Len(name) : name[j] \in Digits
       \/ SubSeq(name, 2, Len(name)) = <<"s", "i", "z", "e">>

RECURSIVE Reverse(_)
Reverse(q) == IF q = <<>> THEN <<>> ELSE Reverse(Tail(q)) \o <<Head(q)>>

(* The filter_map of lines 139-147 with .last() for .next(): the matches, last first. *)
repr_matches_last_first(its) ==
    Reverse(Concat([i \in DOMAIN its |->
              IF its[i].kind = "MetaItem" /\ int_ty_is_match(MetaName(its[i].item))
              THEN <<MetaName(its[i].item)>> ELSE <<>>]))

(* The filter_map of lines 139-147: the matching names of a repr list, in order. *)
repr_matches(its) ==
    Concat([i \in DOMAIN its |->
              IF its[i].kind = "MetaItem" /\ int_ty_is_match(MetaName(its[i].item))
              THEN <<MetaName(its[i].item)>> ELSE <<>>])

(* The init expressions of lines 149, 163 and 165, and the body of line 187. *)
NoInit == [kind |-> "none", ident |-> <<>>, cast |-> <<>>]
TransmuteInit == [kind |-> "transmute", ident |-> <<>>, cast |-> <<>>]
NamedInit(ident) == [kind |-> "named", ident |-> ident, cast |-> <<>>]
TupleInit == [kind |-> "tuple", ident |-> <<>>, cast |-> <<>>]
DelegateBody(t) == [kind |-> "delegate", ident |-> <<>>, cast |-> t]

(* One emitted `impl FromUnchecked<src> for name { ... body ... }`. *)
Impl(src, name, body) == [src |-> src, target |-> name, body |-> body]

(* The primary implementation with #name and #ty exchanged. *)
primary_impl_swapped(name, t, i) == Impl(name, t, i)

(* The primary implementation of lines 197-202. *)
primary_impl(name, t, i) == Impl(t, name, i)

(* tys_impl of lines 181-194: one implementation per MetaItem::Word of other_items. *)
tys_impl(others, name, t) ==
    Concat([i \in DOMAIN others |->
              IF others[i].kind = "MetaItem" /\ others[i].item.kind = "Word"
              THEN <<Impl(others[i].item.id, name, DelegateBody(t))>> ELSE <<>>])

(* The lists the loops of lines 175-179 visit, concatenated in visiting order. *)
uncon_other_lists(a) ==
    LET ais == attr_items(a, id_uncon)
    IN  Concat(Concat([i \in DOMAIN ais |-> meta_items(FilterMapAsItem(ais[i]), id_other)]))

-----------------------------------------------------------------------------
(* Values of the compiled program: a type, a tag (the field or the variant *)
(* the value holds, empty for primitives) and its bytes, little-endian.    *)
Value(t, tag, bytes) == [ty |-> t, tag |-> tag, bytes |-> bytes]

(* Types of the built-in implementations, each written as one token. *)
T_RefU == <<"&U">>
T_RefT == <<"&T">>
T_RefMutU == <<"&mut U">>
T_RefMutT == <<"&mut T">>
T_SliceU8 == <<"&[u8]">>
T_Str == <<"&str">>
T_MutSliceU8 == <<"&mut [u8]">>
T_MutStr == <<"&mut str">>
T_VecU8 == <<"Vec<u8>">>
T_BoxSliceU8 == <<"Box<[u8]>">>
T_String == <<"String">>

(* size_of, in bytes, of the integer types (usize and isize of a 64-bit target); *)
(* 0 for a name that is no type.                                                 *)
IntBytes(t) ==
    CASE t \in {id_u8, id_i8} -> 1
      [] t \in {id_u16, id_i16} -> 2
      [] t \in {id_u32, id_i32} -> 4
      [] t \in {id_u64, id_i64, id_usize, id_isize} -> 8
      [] t = id_u128 -> 16
      [] OTHER -> 0

Signed(t) == t[1] = "i"

(* `inner as t` between integer types: truncation keeps the low bytes, *)
(* widening zero-extends an unsigned and sign-extends a signed source. *)
CastInt(v, t) ==
    LET w == Len(v.bytes)
        fill == IF Signed(v.ty) /\ v.bytes[w] >= 128 THEN 255 ELSE 0
    IN  Value(t, <<>>, [j \in 1..IntBytes(t) |-> IF j <= w THEN v.bytes[j] ELSE fill])

(* Discriminants counted from one. *)
Discriminant_from_one(i, w) == [j \in 1..w |-> IF j = 1 THEN i ELSE 0]

(* The bytes of the default discriminant of the i-th variant (i - 1), w bytes wide. *)
Discriminant(i, w) == [j \in 1..w |-> IF j = 1 THEN i - 1 ELSE 0]

(* mem::transmute(inner) to the enum: the variant whose discriminant has the *)
(* bytes of inner; undefined behaviour, so any outcome, when there is none.  *)
Transmute(inner, a) ==
    LET vs == a.body.variants
        w == Len(inner.bytes)
        hits == {i \in DOMAIN vs : Discriminant(i, w) = inner.bytes}
    IN  IF hits # {}
        THEN {Value(a.ident, vs[i].ident, inner.bytes) : i \in hits}
        ELSE {Value(a.ident, vs[i].ident, Discriminant(i, w)) : i \in DOMAIN vs}
             \cup {Value(a.ident, <<"?">>, inner.bytes)}

(* `f as R` of an enum value: its discriminant. *)
EnumAs(f, t) == Value(t, <<>>, f.bytes)

(* Reading the single field of a wrapper value. *)
FieldRead(x, a) == Value(a.body.fields[1].ty, <<>>, x.bytes)

(* The outcomes of the body of an emitted implementation on inner. *)
EvalBody(body, inner, a, out) ==
    CASE body.kind = "transmute" -> Transmute(inner, a)
      [] body.kind = "named" -> {Value(a.ident, body.ident, inner.bytes)}
      [] body.kind = "tuple" -> {Value(a.ident, <<"0">>, inner.bytes)}
      [] body.kind = "delegate" ->
            LET c == CastInt(inner, body.cast)
                k == CHOOSE j \in DOMAIN out :
                        /\ out[j].src = body.cast
                        /\ \A i \in DOMAIN out : out[i].src = body.cast => j <= i
                b == out[k].body
            IN  CASE b.kind = "transmute" -> Transmute(c, a)
                  [] b.kind = "named" -> {Value(a.ident, b.ident, c.bytes)}
                  [] OTHER -> {Value(a.ident, <<"0">>, c.bytes)}

(* The built-in implementations of src/src/lib.rs, as (source, target) pairs. *)
BuiltinImpls ==
    { [src |-> T_RefU, target |-> T_RefT],
      [src |-> T_RefMutU, target |-> T_RefMutT],
      [src |-> T_SliceU8, target |-> T_Str],
      [src |-> T_MutSliceU8, target |-> T_MutStr],
      [src |-> T_VecU8, target |-> T_String],
      [src |-> T_BoxSliceU8, target |-> T_String] }

(* Box<[u8]>::into_vec *)
into_vec(v) == Value(T_VecU8, <<>>, v.bytes)

(* Whether `target: FromUnchecked<src>` is implemented, built in or emitted. *)
HasFromUnchecked(target, src, out) ==
    \/ [src |-> src, target |-> target] \in BuiltinImpls
    \/ \E j \in DOMAIN out : out[j].src = src /\ out[j].target = target

(* The blanket implementation: T: IntoUnchecked<U> whenever U: FromUnchecked<T>. *)
HasIntoUnchecked(src, target, out) == HasFromUnchecked(target, src, out)

RECURSIVE from_unchecked(_, _, _, _)
RECURSIVE into_unchecked(_, _, _, _)

(* into_unchecked reinterpreting self as the target instead of delegating. *)
into_unchecked_reinterpret(v, target, a, out) == {Value(target, <<>>, v.bytes)}

(* target::from_unchecked(v): the set of its outcomes. *)
from_unchecked(target, v, a, out) ==
    CASE v.ty = T_BoxSliceU8 /\ target = T_String ->
            into_unchecked(into_vec(v), T_String, a, out)
      [] [src |-> v.ty, target |-> target] \in BuiltinImpls ->
            {Value(target, <<>>, v.bytes)}
      [] OTHER ->
            LET j == CHOOSE j \in DOMAIN out : out[j].src = v.ty /\ out[j].target = target
            IN  EvalBody(out[j].body, v, a, out)

(* v.into_unchecked() to target *)
into_unchecked(v, target, a, out) == from_unchecked(target, v, a, out)

(* The integer-kind names among the arguments of all repr lists of a declaration. *)
repr_hints(a) ==
    LET ls == attr_items(a, id_repr)
    IN  UNION {{n \in {MetaName(l[i].item) : i \in {i \in DOMAIN l : l[i].kind = "MetaItem"}} :
                  IntBytes(n) > 0} : l \in {ls[i] : i \in DOMAIN ls}}

(* Whether the emitted implementations compile: the source types are types, *)
(* and transmute needs the enum to have the size of ty.                     *)
Compiles(a, out) ==
    /\ out # <<>>
    /\ \A j \in DOMAIN out : IntBytes(out[j].src) > 0
    /\ a.body.kind = "Enum" => /\ repr_hints(a) = {out[1].src}
                               /\ a.body.variants # <<>>

LowBytes == {0, 1, 2, 3, 10, 255}
HighBytes == {0, 255}

(* The values of an integer type the calls are tried on. *)
SampleInts(t) ==
    {Value(t, <<>>, [j \in 1..IntBytes(t) |-> IF j = 1 THEN lo ELSE hi])
       : lo \in LowBytes, hi \in HighBytes}

TextBytes == {104, 255}

(* The values of the source of a built-in implementation the calls are tried on. *)
SampleBuiltin(t) == {Value(t, <<>>, bs) : bs \in SeqsUpTo(TextBytes, MaxBytes)}

SampleValues(t) == IF IntBytes(t) > 0 THEN SampleInts(t) ELSE SampleBuiltin(t)

(* The targets in scope: the built-in ones and the derived type. *)
Targets(a) == {i.target : i \in BuiltinImpls} \cup {a.ident}
Sources(out) == {i.src : i \in BuiltinImpls} \cup {out[j].src : j \in DOMAIN out}

NoErr == <<>>
NoCall == [via |-> "none", src |-> <<>>, target |-> <<>>,
           arg |-> Value(<<>>, <<>>, <<>>), result |-> Value(<<>>, <<>>, <<>>)]

-----------------------------------------------------------------------------
(* The derive invocation, impl_from_unchecked step by step. *)

Init ==
    /\ ast \in Decls
    /\ pc = "start"
    /\ vi = 1
    /\ items = <<>>
    /\ ty = <<>>
    /\ init = NoInit
    /\ other_items = <<>>
    /\ output = <<>>
    /\ err = NoErr
    /\ call = NoCall

Panic(msg, ident) ==
    /\ pc' = "panicked"
    /\ err' = <<msg, ident>>

(* line 127: match ast.body *)
MatchBody ==
    /\ pc = "start"
    /\ pc' = IF ast.body.kind = "Enum" THEN "variants" ELSE "fields"
    /\ UNCHANGED <<ast, vi, items, ty, init, other_items, output, err, call>>

(* The variant loop continuing over every variant. *)
VariantAny ==
    /\ pc = "variants"
    /\ vi <= Len(ast.body.variants)
    /\ vi' = vi + 1
    /\ UNCHANGED <<ast, pc, items, ty, init, other_items, output, err, call>>

(* lines 129-131: a unit variant, continue *)
VariantUnit ==
    /\ pc = "variants"
    /\ vi <= Len(ast.body.variants)
    /\ ast.body.variants[vi].data = "Unit"
    /\ vi' = vi + 1
    /\ UNCHANGED <<ast, pc, items, ty, init, other_items, output, err, call>>

(* line 132: any other variant, panic naming it *)
VariantNonUnit ==
    /\ pc = "variants"
    /\ vi <= Len(ast.body.variants)
    /\ ast.body.variants[vi].data # "Unit"
    /\ Panic("Found non-unit variant", ast.body.variants[vi].ident)
    /\ UNCHANGED <<ast, vi, items, ty, init, other_items, output, call>>

(* line 136: the first repr list, or panic *)
FindRepr ==
    /\ pc = "variants"
    /\ vi > Len(ast.body.variants)
    /\ LET reprs == attr_items(ast, id_repr)
       IN  IF reprs = <<>>
           THEN /\ Panic("Could not find #[repr] attribute", <<>>)
                /\ UNCHANGED items
           ELSE /\ items' = reprs[1]
                /\ pc' = "scan"
                /\ UNCHANGED err
    /\ UNCHANGED <<ast, vi, ty, init, other_items, output, call>>

(* lines 137-153: the first matching name of the list, or panic *)
ScanRepr ==
    /\ pc = "scan"
    /\ LET ms == repr_matches(items)
       IN  IF ms = <<>>
           THEN /\ Panic("Could not find integer repr for conversion", <<>>)
                /\ UNCHANGED <<ty, init>>
           ELSE /\ ty' = ms[1]
                /\ init' = TransmuteInit
                /\ pc' = "other"
                /\ UNCHANGED err
    /\ UNCHANGED <<ast, vi, items, other_items, output, call>>

(* The struct arm testing `fields.len() < 1`. *)
StructFieldsAtLeastOne ==
    /\ pc = "fields"
    /\ LET fields == ast.body.fields
       IN  IF Len(fields) < 1
           THEN /\ Panic("FromUnchecked can only be derived for types with a single field", <<>>)
                /\ UNCHANGED <<ty, init>>
           ELSE /\ init' = IF fields[1].named THEN NamedInit(fields[1].ident) ELSE TupleInit
                /\ ty' = fields[1].ty
                /\ pc' = "other"
                /\ UNCHANGED err
    /\ UNCHANGED <<ast, vi, items, other_items, output, call>>

(* lines 155-170: the struct arm *)
StructFields ==
    /\ pc = "fields"
    /\ LET fields == ast.body.fields
       IN  IF Len(fields) # 1
           THEN /\ Panic("FromUnchecked can only be derived for types with a single field", <<>>)
                /\ UNCHANGED <<ty, init>>
           ELSE /\ init' = IF fields[1].named THEN NamedInit(fields[1].ident) ELSE TupleInit
                /\ ty' = fields[1].ty
                /\ pc' = "other"
                /\ UNCHANGED err
    /\ UNCHANGED <<ast, vi, items, other_items, output, call>>

(* lines 173-179: other_items is created empty; the loops extend `items` *)
CollectOther ==
    /\ pc = "other"
    /\ other_items' = <<>>
    /\ items' = items \o uncon_other_lists(ast)
    /\ pc' = "emit"
    /\ UNCHANGED <<ast, vi, ty, init, output, err, call>>

(* lines 181-205: the primary implementation, then tys_impl *)
Emit ==
    /\ pc = "emit"
    /\ output' = <<primary_impl(ast.ident, ty, init)>> \o tys_impl(other_items, ast.ident, ty)
    /\ pc' = "done"
    /\ UNCHANGED <<ast, vi, items, ty, init, other_items, err, call>>

(* A call target::from_unchecked(v) of the compiled program.  The conversions *)
(* are pure, so a behaviour records one call.                                 *)
CallFromUnchecked ==
    /\ pc = "done"
    /\ call = NoCall
    /\ Compiles(ast, output)
    /\ \E target \in Targets(ast), src \in Sources(output) :
          /\ HasFromUnchecked(target, src, output)
          /\ \E v \in SampleValues(src) :
                \E r \in from_unchecked(target, v, ast, output) :
                   call' = [via |-> "from", src |-> src, target |-> target,
                            arg |-> v, result |-> r]
    /\ UNCHANGED <<ast, pc, vi, items, ty, init, other_items, output, err>>

(* A call v.into_unchecked() of the compiled program, through the blanket impl. *)
CallIntoUnchecked ==
    /\ pc = "done"
    /\ call = NoCall
    /\ Compiles(ast, output)
    /\ \E target \in Targets(ast), src \in Sources(output) :
          /\ HasIntoUnchecked(src, target, output)
          /\ \E v \in SampleValues(src) :
                \E r \in into_unchecked(v, target, ast, output) :
                   call' = [via |-> "into", src |-> src, target |-> target,
                            arg |-> v, result |-> r]
    /\ UNCHANGED <<ast, pc, vi, items, ty, init, other_items, output, err>>

Next ==
    \/ MatchBody
    \/ VariantUnit
    \/ VariantNonUnit
    \/ FindRepr
    \/ ScanRepr
    \/ StructFields
    \/ CollectOther
    \/ Emit
    \/ CallFromUnchecked
    \/ CallIntoUnchecked

Spec == Init /\ [][Next]_vars

-----------------------------------------------------------------------------
(* Vocabulary of the properties, stated on the declaration itself. *)

IsEnum == ast.body.kind = "Enum"
IsStruct == ast.body.kind = "Struct"
Succeeded == pc \in {"other", "emit", "done"}

(* The ten integer kinds. *)
TenKinds == {id_i8, id_i16, id_i32, id_i64, id_isize,
             id_u8, id_u16, id_u32, id_u64, id_usize}

(* `i` or `u` followed by digits or by `size`, case-sensitive. *)
IntKindPattern(n) ==
    /\ Len(n) >= 2
    /\ n[1] = "i" \/ n[1] = "u"
    /\ \/ Tail(n) = <<"s", "i", "z", "e">>
       \/ \A j \in 2..Len(n) : \E d \in 1..10 : n[j] = DigitChars[d]

(* The positions of the list directives named id on the declaration. *)
DirectivePositions(id) ==
    {i \in DOMAIN ast.attrs : ast.attrs[i].kind = "List" /\ ast.attrs[i].id = id}

HasRepr == DirectivePositions(id_repr) # {}

(* The arguments of the first repr directive. *)
FirstReprArgs ==
    ast.attrs[CHOOSE i \in DirectivePositions(id_repr) :
                \A j \in DirectivePositions(id_repr) : i <= j].items

(* The positions of the arguments of the first repr directive that match. *)
MatchingReprArgs ==
    {i \in DOMAIN FirstReprArgs :
        /\ FirstReprArgs[i].kind = "MetaItem"
        /\ IntKindPattern(FirstReprArgs[i].item.id)}

(* The positions of the variants that carry data. *)
DataVariants == {i \in DOMAIN ast.body.variants : ast.body.variants[i].data # "Unit"}

FirstDataVariant == CHOOSE i \in DataVariants : \A j \in DataVariants : i <= j

RECURSIVE PlainIdents(_)
PlainIdents(its) ==
    IF its = <<>> THEN <<>>
    ELSE (IF Head(its).kind = "MetaItem" /\ Head(its).item.kind = "Word"
          THEN <<Head(its).item.id>> ELSE <<>>) \o PlainIdents(Tail(its))

RECURSIVE OtherIdentsOfDirective(_)
OtherIdentsOfDirective(its) ==
    IF its = <<>> THEN <<>>
    ELSE (IF /\ Head(its).kind = "MetaItem"
             /\ Head(its).item.kind = "List"
             /\ Head(its).item.id = id_other
          THEN PlainIdents(Head(its).item.items) ELSE <<>>)
         \o OtherIdentsOfDirective(Tail(its))

RECURSIVE OtherIdentsOfAttrs(_)
OtherIdentsOfAttrs(as) ==
    IF as = <<>> THEN <<>>
    ELSE (IF Head(as).kind = "List" /\ Head(as).id = id_uncon
          THEN OtherIdentsOfDirective(Head(as).items) ELSE <<>>)
         \o OtherIdentsOfAttrs(Tail(as))

(* The declared secondary sources S1..Sn, in declaration order. *)
DeclaredOthers == OtherIdentsOfAttrs(ast.attrs)

(* The bytes of the integer n < 256 in a w-byte little-endian integer. *)
SmallInt(n, w) == [j \in 1..w |-> IF j = 1 THEN n ELSE 0]

-----------------------------------------------------------------------------
(* C1: with primary type F and declared secondary sources S1..Sn, the      *)
(* generator emits exactly 1 + n implementations, for F and for each Si in *)
(* turn, and the one for Si yields on x what the primary yields on x as F. *)
C1_OnePlusNImplementations ==
    pc = "done" =>
        /\ Len(output) = 1 + Len(DeclaredOthers)
        /\ output[1].src = ty
        /\ \A i \in DOMAIN DeclaredOthers :
              /\ output[i + 1].src = DeclaredOthers[i]
              /\ \A x \in SampleInts(DeclaredOthers[i]) :
                    EvalBody(output[i + 1].body, x, ast, output)
                        = EvalBody(output[1].body, CastInt(x, ty), ast, output)

(* C2: whenever B implements FromUnchecked<A>, A implements IntoUnchecked<B>, *)
(* and every call a.into_unchecked() went to an implemented pair and returned *)
(* what B::from_unchecked(a) returns.                                         *)
C2_IntoIsFrom ==
    /\ (pc = "done" /\ call = NoCall) =>
          \A target \in Targets(ast), src \in Sources(output) :
              HasFromUnchecked(target, src, output) => HasIntoUnchecked(src, target, output)
    /\ call.via = "into" =>
          /\ HasFromUnchecked(call.target, call.src, output)
          /\ call.result \in from_unchecked(call.target, call.arg, ast, output)

(* The doc-test of src/src/lib.rs: the bytes of "h" into &str. *)
C2_Witness ==
    /\ call.via = "into"
    /\ call.arg = Value(T_SliceU8, <<>>, <<104>>)
    /\ call.result = Value(T_Str, <<>>, <<104>>)

(* C3: the primary implementation of a unit enum of representation R is a  *)
(* transmute, and maps the integer i, 0 <= i <= k, to the variant of       *)
(* ordinal i, whose cast back to R is i.                                   *)
C3_EnumOrdinal ==
    /\ (IsEnum /\ pc = "done") => output[1].body.kind = "transmute"
    /\ (IsEnum /\ call.via = "from" /\ call.target = ast.ident /\ call.src = ty) =>
          \A i \in 0..(Len(ast.body.variants) - 1) :
              call.arg.bytes = SmallInt(i, Len(call.arg.bytes)) =>
                  /\ call.result.tag = ast.body.variants[i + 1].ident
                  /\ EnumAs(call.result, ty) = call.arg

(* Flag::from_unchecked(2u8) is the third variant. *)
C3_Witness ==
    /\ IsEnum
    /\ call.via = "from"
    /\ call.arg = Value(id_u8, <<>>, <<2>>)
    /\ call.result.tag = VariantIdent(3)

(* C4: a single-field wrapper W of field type F without uncon directives gets *)
(* exactly one implementation, FromUnchecked<F> for W, and the field of       *)
(* W::from_unchecked(v) reads v.                                              *)
C4_WrapperRoundTrip ==
    (IsStruct /\ Len(ast.body.fields) = 1 /\ DirectivePositions(id_uncon) = {}) =>
        /\ pc = "done" =>
              /\ Len(output) = 1
              /\ output[1].src = ast.body.fields[1].ty
              /\ output[1].target = ast.ident
        /\ (call.via = "from" /\ call.target = ast.ident) =>
              /\ call.src = ast.body.fields[1].ty
              /\ call.result.ty = ast.ident
              /\ FieldRead(call.result, ast) = call.arg

(* U4::from_unchecked(0b1010).bits is 0b1010, for the named and the positional field. *)
C4_Witness ==
    /\ IsStruct
    /\ DirectivePositions(id_uncon) = {}
    /\ call.via = "from"
    /\ call.target = ast.ident
    /\ call.arg = Value(id_u8, <<>>, <<10>>)
    /\ FieldRead(call.result, ast) = call.arg

(* C5: an enum with a variant that carries data never gets an implementation: *)
(* the variant loop stops at the first such variant, the panic names it, and  *)
(* the repr directive is never looked at.                                     *)
C5_NonUnitVariantAborts ==
    (IsEnum /\ DataVariants # {}) =>
        /\ output = <<>>
        /\ pc \in {"start", "variants", "panicked"}
        /\ vi <= FirstDataVariant
        /\ items = <<>> /\ ty = <<>>
        /\ pc = "panicked" =>
              err = <<"Found non-unit variant", ast.body.variants[FirstDataVariant].ident>>

(* The second variant carries data, the first does not, and a valid repr is present. *)
C5_Witness ==
    /\ IsEnum
    /\ DataVariants # {} /\ FirstDataVariant = 2
    /\ HasRepr /\ MatchingReprArgs # {}
    /\ pc = "panicked"
    /\ err = <<"Found non-unit variant", VariantIdent(2)>>

(* C6: a unit-only enum without a repr directive aborts with the `no repr   *)
(* attribute` panic, one whose (first) repr directive has no argument       *)
(* matching the integer-kind pattern aborts with the `no integer repr`      *)
(* panic; neither emits anything, whatever uncon(other(...)) declares.      *)
C6_ReprErrors ==
    (IsEnum /\ DataVariants = {}) =>
        /\ ~HasRepr =>
              /\ output = <<>>
              /\ pc \in {"start", "variants", "panicked"}
              /\ pc = "panicked" => err = <<"Could not find #[repr] attribute", <<>>>>
        /\ (HasRepr /\ MatchingReprArgs = {}) =>
              /\ output = <<>>
              /\ pc \in {"start", "variants", "scan", "panicked"}
              /\ pc = "panicked" =>
                    err = <<"Could not find integer repr for conversion", <<>>>>

(* A unit-only enum with secondary sources declared and a repr without integer kind. *)
C6_Witness ==
    /\ IsEnum /\ DataVariants = {}
    /\ HasRepr /\ MatchingReprArgs = {}
    /\ DeclaredOthers # <<>>
    /\ pc = "panicked"
    /\ err = <<"Could not find integer repr for conversion", <<>>>>

(* C7: a struct whose number of fields is not one aborts with the `single *)
(* field` panic and emits nothing; with one field nothing panics.         *)
C7_SingleField ==
    IsStruct =>
        /\ Len(ast.body.fields) # 1 =>
              /\ output = <<>>
              /\ pc \in {"start", "fields", "panicked"}
              /\ pc = "panicked" =>
                    err = <<"FromUnchecked can only be derived for types with a single field",
                            <<>>>>
        /\ Len(ast.body.fields) = 1 => (err = NoErr /\ pc # "panicked")

(* A struct of two fields has panicked. *)
C7_Witness ==
    /\ IsStruct
    /\ Len(ast.body.fields) = 2
    /\ pc = "panicked"

(* C8 as stated: the primary representation type of a successful enum *)
(* derivation is one of the ten integer kinds.                        *)
C8_TenKindsOnly ==
    (IsEnum /\ Succeeded) => ty \in TenKinds

(* C8 as amended: the primary representation type of a successful enum    *)
(* derivation is `i` or `u` followed by digits or by `size`; the scan     *)
(* accepts each of the ten kinds.                                         *)
C8_PatternOnly ==
    /\ (IsEnum /\ Succeeded) => IntKindPattern(ty)
    /\ pc = "scan" => \A t \in TenKinds : repr_matches(<<Meta(Word(t))>>) = <<t>>

(* repr(u128) is accepted. *)
C8_Witness ==
    /\ IsEnum
    /\ pc = "done"
    /\ ty = id_u128

(* C9: the secondary implementations are, in order and with repetitions, the *)
(* plain identifiers of all other(...) lists of all uncon(...) directives.   *)
C9_OthersInDeclarationOrder ==
    pc = "done" =>
        [j \in 1..(Len(output) - 1) |-> output[j + 1].src] = DeclaredOthers

(* C10: the primary representation type of an enum is the first argument of *)
(* the first repr directive that matches the case-sensitive pattern.        *)
C10_FirstMatchOfFirstRepr ==
    (IsEnum /\ Succeeded) =>
        /\ HasRepr
        /\ MatchingReprArgs # {}
        /\ \E i \in MatchingReprArgs :
              /\ \A j \in MatchingReprArgs : i <= j
              /\ ty = FirstReprArgs[i].item.id
        /\ ty # id_U8

(* repr(C, u16, u8) resolves to u16. *)
C10_Witness ==
    /\ IsEnum
    /\ pc = "done"
    /\ Len(FirstReprArgs) = 3
    /\ FirstReprArgs[1].item.id = id_C
    /\ ty = id_u16

====
